---------------------------- MODULE Spec2Model ----------------------------
(***************************************************************************)
(* Model of the vouch-ansible extension: version normalisation, comparator *)
(* ranking, requirement resolution (src/src/galaxy.rs) and the discovery   *)
(* and selection of dependency declaration files (src/src/lib.rs).         *)
(*                                                                         *)
(* Strings are sequences of one-character strings, so that formatting,     *)
(* splitting and parsing are computed rather than assumed.                 *)
(***************************************************************************)
EXTENDS Integers, Sequences, FiniteSets, TLC

VARIABLES
    pc,                   \* position of the running operation
    version,              \* normalize_version: the argument
    previous,             \* normalize_version: the argument of the call before
    normalized,           \* normalize_version: the returned string
    version_requirement,  \* resolver: semver::VersionReq (its comparators)
    global_version,       \* resolver: Option<semver::Version>
    selected_comparator,  \* resolver: select_latest_equal_comparator's result
    resolved,             \* resolver: Result<Version, VersionError>
    fs,                   \* the directories from the root down to the start directory
    working_directory,    \* locator: the directory being checked
    checked,              \* locator: the directories checked so far, in order
    dependency_files,     \* locator: the returned Vec<DependencyFile>
    dependency_file,      \* extractor: the DependencyFile that is parsed
    package_meta,         \* extractor: the content of the declaration file
    global_dependencies,  \* the inventory: Result<HashMap<String, String>>
    outcome               \* extractor / extension: the Result returned

normVars    == <<version, previous, normalized>>
resolveVars == <<version_requirement, global_version, selected_comparator, resolved>>
locateVars  == <<fs, working_directory, checked, dependency_files>>
extractVars == <<dependency_file, package_meta, global_dependencies, outcome>>
vars        == <<pc, normVars, resolveVars, locateVars, extractVars>>

None == [tag |-> "None"]
Some(x) == [tag |-> "Some", value |-> x]
Ok(x) == [tag |-> "Ok", value |-> x]
Err(e) == [tag |-> "Err", error |-> e]

\* Values of the variables a specification does not use.
IdleNorm    == version = <<>> /\ previous = None /\ normalized = None
IdleResolve == /\ version_requirement = <<>> /\ global_version = None
               /\ selected_comparator = None /\ resolved = None
IdleLocate  == /\ fs = <<>> /\ working_directory = <<>> /\ checked = <<>>
               /\ dependency_files = None
IdleExtract == /\ dependency_file = None /\ package_meta = None
               /\ global_dependencies = None /\ outcome = None

---------------------------------------------------------------------------
(* Strings *)

\* Bound: the length of the enumerated input strings of normalize_version.
MaxLen == 4

Concat(ss) == LET RECURSIVE cat(_)
                  cat(i) == IF i > Len(ss) THEN <<>> ELSE ss[i] \o cat(i + 1)
              IN  cat(1)

\* The index of the first occurrence of character c in s, or 0.
IndexOf(s, c) == IF \E i \in 1..Len(s) : s[i] = c
                 THEN CHOOSE i \in 1..Len(s) : s[i] = c /\ \A j \in 1..(i - 1) : s[j] # c
                 ELSE 0

\* str::split(c): the pieces between the occurrences of c (always at least one).
RECURSIVE Split(_, _)
Split(s, c) == LET i == IndexOf(s, c)
               IN  IF i = 0 THEN <<s>>
                   ELSE <<SubSeq(s, 1, i - 1)>> \o Split(SubSeq(s, i + 1, Len(s)), c)

\* chars().filter(|c| c == &'.').count()
CountChar(s, c) == Cardinality({i \in 1..Len(s) : s[i] = c})

DigitChars == <<"0", "1", "2", "3", "4", "5", "6", "7", "8", "9">>
IsDigit(c) == \E i \in 1..10 : DigitChars[i] = c
DigitVal(c) == (CHOOSE i \in 1..10 : DigitChars[i] = c) - 1

\* u64's Display: decimal digits, no leading zero.
RECURSIVE NumToString(_)
NumToString(n) == IF n < 10 THEN <<DigitChars[n + 1]>>
                  ELSE NumToString(n \div 10) \o <<DigitChars[(n % 10) + 1]>>

RECURSIVE DigitsToNum(_)
DigitsToNum(s) == IF s = <<>> THEN 0
                  ELSE 10 * DigitsToNum(SubSeq(s, 1, Len(s) - 1)) + DigitVal(s[Len(s)])

\* All strings over alphabet A of length at most n.
RECURSIVE StringsUpTo(_, _)
StringsUpTo(A, n) == IF n = 0 THEN {<<>>}
                     ELSE LET shorter == StringsUpTo(A, n - 1)
                          IN  shorter \cup {Append(s, c) : s \in shorter, c \in A}

---------------------------------------------------------------------------
(* normalize_version, galaxy.rs:103-125 *)

\* A plausible slip: the major-only case gets one component instead of two.
normalize_version_short(v) ==
    LET split == Split(v, "-")
        prefix == split[1]
        count_periods == CountChar(prefix, ".")
        padded == IF count_periods = 0 THEN prefix \o <<".", "0">>
                  ELSE IF count_periods = 1 THEN prefix \o <<".", "0">>
                  ELSE prefix
    IN  padded \o Concat([i \in 1..(Len(split) - 1) |-> <<"-">> \o split[i + 1]])

\* A plausible slip: only the first piece after the core is reattached.
normalize_version_one_part(v) ==
    LET split == Split(v, "-")
        prefix == split[1]
        count_periods == CountChar(prefix, ".")
        padded == IF count_periods = 0 THEN prefix \o <<".", "0", ".", "0">>
                  ELSE IF count_periods = 1 THEN prefix \o <<".", "0">>
                  ELSE prefix
    IN  IF Len(split) > 1 THEN padded \o <<"-">> \o split[2] ELSE padded

\* The function always returns Ok: split("-").next() is never None, so the
\* model returns the string itself.
normalize_version(v) ==
    LET split == Split(v, "-")
        prefix == split[1]
        count_periods == CountChar(prefix, ".")
        padded == IF count_periods = 0 THEN prefix \o <<".", "0", ".", "0">>
                  ELSE IF count_periods = 1 THEN prefix \o <<".", "0">>
                  ELSE prefix
    IN  padded \o Concat([i \in 1..(Len(split) - 1) |-> <<"-">> \o split[i + 1]])

NormAlphabet == {"1", ".", "-", "a"}

\* The inputs of test_normalize_version (galaxy.rs:127-136).
TestVersions == { <<"0", ".", "1">>,
                  <<"0", ".", "1", "-", "a", "l", "p", "h", "a", "-", "1", "2", "3">>,
                  <<"1">> }

NormInit == /\ pc = "call"
            /\ version \in StringsUpTo(NormAlphabet, MaxLen) \cup TestVersions
            /\ previous = None
            /\ normalized = None
            /\ IdleResolve /\ IdleLocate /\ IdleExtract

\* A call normalize_version(version).
Normalize == /\ pc = "call"
             /\ normalized' = Some(normalize_version(version))
             /\ pc' = "returned"
             /\ UNCHANGED <<version, previous, resolveVars, locateVars, extractVars>>

\* The caller passes the returned string to normalize_version again.
Renormalize == /\ pc = "returned"
               /\ previous = None
               /\ previous' = Some(version)
               /\ version' = normalized.value
               /\ normalized' = None
               /\ pc' = "call"
               /\ UNCHANGED <<resolveVars, locateVars, extractVars>>

NormNext == Normalize \/ Renormalize

SpecNormalize == NormInit /\ [][NormNext]_vars

\* The string "0.1-alpha-123" of test_normalize_version and its expected result.
TestAlphaVersion == <<"0", ".", "1", "-", "a", "l", "p", "h", "a", "-", "1", "2", "3">>
TestAlphaNormalized ==
    <<"0", ".", "1", ".", "0", "-", "a", "l", "p", "h", "a", "-", "1", "2", "3">>

\* The result the specification describes: cut at the first '-', pad the
\* core by its number of '.', put the tail back unchanged after one '-'.
DescribedNormalization(v) ==
    LET i == IndexOf(v, "-")
        core == IF i = 0 THEN v ELSE SubSeq(v, 1, i - 1)
        tail == IF i = 0 THEN <<>> ELSE SubSeq(v, i + 1, Len(v))
        dots == CountChar(core, ".")
        pad == IF dots = 0 THEN <<".", "0", ".", "0">>
               ELSE IF dots = 1 THEN <<".", "0">> ELSE <<>>
    IN  IF i = 0 THEN core \o pad ELSE core \o pad \o <<"-">> \o tail

\* C5: every call of normalize_version returns the core (the text before the
\* first '-') padded with ".0.0" when it holds no '.', ".0" when it holds
\* one and nothing otherwise, followed, when the input holds a '-', by one
\* '-' and the rest of the input unchanged; "1" gives "1.0.0", "0.1" gives
\* "0.1.0" and "0.1-alpha-123" gives "0.1.0-alpha-123".
C5_NormalizeAsDescribed ==
    pc = "returned" =>
        /\ normalized = Some(DescribedNormalization(version))
        /\ version = <<"1">> => normalized.value = <<"1", ".", "0", ".", "0">>
        /\ version = <<"0", ".", "1">> => normalized.value = <<"0", ".", "1", ".", "0">>
        /\ version = TestAlphaVersion => normalized.value = TestAlphaNormalized
        /\ IndexOf(version, "-") = 0 => IndexOf(normalized.value, "-") = 0

\* C5 witness: a call on an input whose tail holds a further '-' has returned.
C5_Witness ==
    /\ pc = "returned"
    /\ previous = None
    /\ version = TestAlphaVersion
    /\ normalized = Some(TestAlphaNormalized)

\* major[.minor[.patch]] with an optional '-' tail: the core is one to three
\* non-empty groups of digits.
WellFormedVersion(v) ==
    LET core == Split(v, "-")[1]
        groups == Split(core, ".")
    IN  /\ Len(groups) \in 1..3
        /\ \A g \in 1..Len(groups) :
              /\ groups[g] # <<>>
              /\ \A k \in 1..Len(groups[g]) : IsDigit(groups[g][k])

\* C6: normalize_version is idempotent on well-formed inputs: the call on the
\* string a first call returned gives that string back.
C6_NormalizeIdempotent ==
    (pc = "returned" /\ previous # None /\ WellFormedVersion(previous.value))
        => normalized = Some(version)

\* C6 witness: the second call has returned for a well-formed input that the
\* first call had to pad.
C6_Witness ==
    /\ pc = "returned"
    /\ previous = Some(<<"1", "-", "a">>)
    /\ version = <<"1", ".", "0", ".", "0", "-", "a">>
    /\ normalized = Some(version)

---------------------------------------------------------------------------
(* The semver crate as galaxy.rs uses it: Version, Comparator, VersionReq. *)

LowerChars == <<"a", "b", "c", "d", "e", "f", "g", "h", "i", "j", "k", "l", "m",
                "n", "o", "p", "q", "r", "s", "t", "u", "v", "w", "x", "y", "z">>
IsLower(c) == \E i \in 1..26 : LowerChars[i] = c

\* The byte value of a character of an identifier ('-', digits, lower case).
Ascii(c) == IF c = "-" THEN 45
            ELSE IF IsDigit(c) THEN 48 + DigitVal(c)
            ELSE 96 + (CHOOSE i \in 1..26 : LowerChars[i] = c)

IsIdentChar(c) == c = "-" \/ IsDigit(c) \/ IsLower(c)
AllDigits(s) == \A i \in 1..Len(s) : IsDigit(s[i])

\* Ordering values: -1 is Less, 0 is Equal, 1 is Greater.
CmpInt(a, b) == IF a < b THEN -1 ELSE IF a > b THEN 1 ELSE 0

\* Byte-wise comparison of two strings.
RECURSIVE CmpStr(_, _)
CmpStr(a, b) == IF a = <<>> /\ b = <<>> THEN 0
                ELSE IF a = <<>> THEN -1
                ELSE IF b = <<>> THEN 1
                ELSE IF Ascii(Head(a)) # Ascii(Head(b))
                     THEN CmpInt(Ascii(Head(a)), Ascii(Head(b)))
                     ELSE CmpStr(Tail(a), Tail(b))

\* One pre-release identifier against another: numeric ones by value and
\* below the others, the others byte-wise.
CmpIdent(a, b) ==
    IF AllDigits(a) /\ AllDigits(b) THEN CmpInt(DigitsToNum(a), DigitsToNum(b))
    ELSE IF AllDigits(a) THEN -1
    ELSE IF AllDigits(b) THEN 1
    ELSE CmpStr(a, b)

RECURSIVE CmpIdents(_, _)
CmpIdents(as, bs) == IF as = <<>> /\ bs = <<>> THEN 0
                     ELSE IF as = <<>> THEN -1
                     ELSE IF bs = <<>> THEN 1
                     ELSE IF CmpIdent(Head(as), Head(bs)) # 0
                          THEN CmpIdent(Head(as), Head(bs))
                          ELSE CmpIdents(Tail(as), Tail(bs))

\* Prerelease::cmp: the empty pre-release (a release) is the greatest.
CmpPre(a, b) == IF a = <<>> /\ b = <<>> THEN 0
                ELSE IF a = <<>> THEN 1
                ELSE IF b = <<>> THEN -1
                ELSE CmpIdents(Split(a, "."), Split(b, "."))

Version(major, minor, patch, pre) ==
    [major |-> major, minor |-> minor, patch |-> patch, pre |-> pre, build |-> <<>>]

\* Version's Display.
VersionToString(v) ==
    NumToString(v.major) \o <<".">> \o NumToString(v.minor) \o <<".">>
        \o NumToString(v.patch)
        \o (IF v.pre = <<>> THEN <<>> ELSE <<"-">> \o v.pre)
        \o (IF v.build = <<>> THEN <<>> ELSE <<"+">> \o v.build)

\* A numeric component: digits, no leading zero.
IsNumeric(s) == s # <<>> /\ AllDigits(s) /\ (Len(s) > 1 => s[1] # "0")

\* Dot-separated identifiers; numeric ones without a leading zero in a
\* pre-release, any in build metadata.
IsIdentList(s, strict) ==
    LET ids == Split(s, ".")
    IN  \A i \in 1..Len(ids) :
            /\ ids[i] # <<>>
            /\ \A k \in 1..Len(ids[i]) : IsIdentChar(ids[i][k])
            /\ (strict /\ AllDigits(ids[i])) => IsNumeric(ids[i])

\* Version::parse: major.minor.patch[-pre][+build], nothing else.
ParseVersion(s) ==
    LET j == IndexOf(s, "+")
        main == IF j = 0 THEN s ELSE SubSeq(s, 1, j - 1)
        build == IF j = 0 THEN <<>> ELSE SubSeq(s, j + 1, Len(s))
        i == IndexOf(main, "-")
        core == IF i = 0 THEN main ELSE SubSeq(main, 1, i - 1)
        pre == IF i = 0 THEN <<>> ELSE SubSeq(main, i + 1, Len(main))
        nums == Split(core, ".")
    IN  IF /\ Len(nums) = 3
           /\ \A k \in 1..3 : IsNumeric(nums[k])
           /\ (i # 0 => IsIdentList(pre, TRUE))
           /\ (j # 0 => IsIdentList(build, FALSE))
        THEN Ok([major |-> DigitsToNum(nums[1]), minor |-> DigitsToNum(nums[2]),
                 patch |-> DigitsToNum(nums[3]), pre |-> pre, build |-> build])
        ELSE Err("parse")

Ops == {"Exact", "Greater", "GreaterEq", "Less", "LessEq", "Tilde", "Caret", "Wildcard"}

\* semver::Comparator: minor and patch are Option<u64>.
Comparator(op, major, minor, patch, pre) ==
    [op |-> op, major |-> major, minor |-> minor, patch |-> patch, pre |-> pre]

\* Comparator's Display.
ComparatorToString(c) ==
    LET op == CASE c.op = "Exact" -> <<"=">>
                [] c.op = "Greater" -> <<">">>
                [] c.op = "GreaterEq" -> <<">", "=">>
                [] c.op = "Less" -> <<"<">>
                [] c.op = "LessEq" -> <<"<", "=">>
                [] c.op = "Tilde" -> <<"~">>
                [] c.op = "Caret" -> <<"^">>
                [] c.op = "Wildcard" -> <<>>
        star == IF c.op = "Wildcard" THEN <<".", "*">> ELSE <<>>
    IN  op \o NumToString(c.major)
           \o (IF c.minor = None THEN star
               ELSE <<".">> \o NumToString(c.minor.value)
                    \o (IF c.patch = None THEN star
                        ELSE <<".">> \o NumToString(c.patch.value)
                             \o (IF c.pre = <<>> THEN <<>> ELSE <<"-">> \o c.pre)))

matches_exact(cmp, ver) ==
    /\ ver.major = cmp.major
    /\ cmp.minor # None => ver.minor = cmp.minor.value
    /\ cmp.patch # None => ver.patch = cmp.patch.value
    /\ ver.pre = cmp.pre

matches_greater(cmp, ver) ==
    IF ver.major # cmp.major THEN ver.major > cmp.major
    ELSE IF cmp.minor = None THEN FALSE
    ELSE IF ver.minor # cmp.minor.value THEN ver.minor > cmp.minor.value
    ELSE IF cmp.patch = None THEN FALSE
    ELSE IF ver.patch # cmp.patch.value THEN ver.patch > cmp.patch.value
    ELSE CmpPre(ver.pre, cmp.pre) = 1

matches_less(cmp, ver) ==
    IF ver.major # cmp.major THEN ver.major < cmp.major
    ELSE IF cmp.minor = None THEN FALSE
    ELSE IF ver.minor # cmp.minor.value THEN ver.minor < cmp.minor.value
    ELSE IF cmp.patch = None THEN FALSE
    ELSE IF ver.patch # cmp.patch.value THEN ver.patch < cmp.patch.value
    ELSE CmpPre(ver.pre, cmp.pre) = -1

matches_tilde(cmp, ver) ==
    IF ver.major # cmp.major THEN FALSE
    ELSE IF cmp.minor # None /\ ver.minor # cmp.minor.value THEN FALSE
    ELSE IF cmp.patch # None /\ ver.patch # cmp.patch.value
         THEN ver.patch > cmp.patch.value
    ELSE CmpPre(ver.pre, cmp.pre) >= 0

matches_caret(cmp, ver) ==
    IF ver.major # cmp.major THEN FALSE
    ELSE IF cmp.minor = None THEN TRUE
    ELSE IF cmp.patch = None
         THEN IF cmp.major > 0 THEN ver.minor >= cmp.minor.value
              ELSE ver.minor = cmp.minor.value
    ELSE IF cmp.major > 0 /\ ver.minor # cmp.minor.value
         THEN ver.minor > cmp.minor.value
    ELSE IF cmp.major > 0 /\ ver.patch # cmp.patch.value
         THEN ver.patch > cmp.patch.value
    ELSE IF cmp.major = 0 /\ cmp.minor.value > 0 /\ ver.minor # cmp.minor.value
         THEN FALSE
    ELSE IF cmp.major = 0 /\ cmp.minor.value > 0 /\ ver.patch # cmp.patch.value
         THEN ver.patch > cmp.patch.value
    ELSE IF cmp.major = 0 /\ cmp.minor.value = 0
            /\ (ver.minor # cmp.minor.value \/ ver.patch # cmp.patch.value)
         THEN FALSE
    ELSE CmpPre(ver.pre, cmp.pre) >= 0

matches_impl(cmp, ver) ==
    CASE cmp.op \in {"Exact", "Wildcard"} -> matches_exact(cmp, ver)
      [] cmp.op = "Greater" -> matches_greater(cmp, ver)
      [] cmp.op = "GreaterEq" -> matches_exact(cmp, ver) \/ matches_greater(cmp, ver)
      [] cmp.op = "Less" -> matches_less(cmp, ver)
      [] cmp.op = "LessEq" -> matches_exact(cmp, ver) \/ matches_less(cmp, ver)
      [] cmp.op = "Tilde" -> matches_tilde(cmp, ver)
      [] cmp.op = "Caret" -> matches_caret(cmp, ver)

pre_is_compatible(cmp, ver) ==
    /\ cmp.major = ver.major
    /\ cmp.minor = Some(ver.minor)
    /\ cmp.patch = Some(ver.patch)
    /\ cmp.pre # <<>>

\* VersionReq::matches: every comparator holds, and a pre-release version
\* needs a comparator with a pre-release on the same major.minor.patch.
matches(req, ver) ==
    /\ \A i \in 1..Len(req) : matches_impl(req[i], ver)
    /\ \/ ver.pre = <<>>
       \/ \E i \in 1..Len(req) : pre_is_compatible(req[i], ver)

---------------------------------------------------------------------------
(* Comparator ranking and requirement resolution, galaxy.rs:43-179 *)

\* Bound: the number of comparators of the enumerated requirements.
MaxComparators == 2

\* A plausible slip: the pre-release is left out of the ordering.
order_without_prerelease(a, b) ==
    LET minor(c) == IF c.minor = None THEN 0 ELSE c.minor.value
        patch(c) == IF c.patch = None THEN 0 ELSE c.patch.value
    IN  IF a.major # b.major THEN CmpInt(a.major, b.major)
        ELSE IF minor(a) # minor(b) THEN CmpInt(minor(a), minor(b))
        ELSE CmpInt(patch(a), patch(b))

order_version_requirement_comparators(a, b) ==
    LET minor(c) == IF c.minor = None THEN 0 ELSE c.minor.value
        patch(c) == IF c.patch = None THEN 0 ELSE c.patch.value
        major_ord == CmpInt(a.major, b.major)
        minor_ord == CmpInt(minor(a), minor(b))
        patch_ord == CmpInt(patch(a), patch(b))
        prerelease_ord == CmpPre(a.pre, b.pre)
    IN  IF major_ord # 0 THEN major_ord
        ELSE IF minor_ord # 0 THEN minor_ord
        ELSE IF patch_ord # 0 THEN patch_ord
        ELSE IF prerelease_ord # 0 THEN prerelease_ord
        ELSE 0

\* Vec::sort_by with this ordering: a stable sort. Each element is put after
\* the elements already placed that are not greater than it.
RECURSIVE SortComparators(_)
SortComparators(cs) ==
    IF cs = <<>> THEN <<>>
    ELSE LET sorted == SortComparators(SubSeq(cs, 1, Len(cs) - 1))
             x == cs[Len(cs)]
             k == Cardinality({i \in 1..Len(sorted) :
                      order_version_requirement_comparators(sorted[i], x) <= 0})
         IN  SubSeq(sorted, 1, k) \o <<x>> \o SubSeq(sorted, k + 1, Len(sorted))

EligibleOps == {"Exact", "GreaterEq", "LessEq", "Tilde", "Caret"}

\* The for loop of select_latest_equal_comparator (galaxy.rs:76-87): the last
\* comparator of the vector whose operator is one of ops is kept.
LastWithOp(sorted, ops) ==
    LET hits == {i \in 1..Len(sorted) : sorted[i].op \in ops}
    IN  IF hits = {} THEN None
        ELSE Some(sorted[CHOOSE i \in hits : \A j \in hits : j <= i])

\* A plausible slip: every operator is a candidate.
select_latest_any_operator(comparators) ==
    LastWithOp(SortComparators(comparators), Ops)

select_latest_equal_comparator(comparators) ==
    LastWithOp(SortComparators(comparators), EligibleOps)

\* str::trim_start_matches: the prefix is removed as often as it occurs.
RECURSIVE TrimStartMatches(_, _)
TrimStartMatches(s, pat) ==
    IF pat # <<>> /\ Len(s) >= Len(pat) /\ SubSeq(s, 1, Len(pat)) = pat
    THEN TrimStartMatches(SubSeq(s, Len(pat) + 1, Len(s)), pat)
    ELSE s

\* A plausible slip: the operator-stripped string is parsed without being
\* normalised.
comparator_to_version_unnormalized(comparator) ==
    LET comparator_str == ComparatorToString(comparator)
        op_str == CASE comparator.op = "Exact" -> <<"=">>
                    [] comparator.op = "Greater" -> <<">">>
                    [] comparator.op = "GreaterEq" -> <<">", "=">>
                    [] comparator.op = "Less" -> <<"<">>
                    [] comparator.op = "LessEq" -> <<"<", "=">>
                    [] comparator.op = "Tilde" -> <<"~">>
                    [] comparator.op = "Caret" -> <<"^">>
                    [] comparator.op = "Wildcard" -> <<"*">>
    IN  ParseVersion(TrimStartMatches(comparator_str, op_str))

comparator_to_version(comparator) ==
    LET comparator_str == ComparatorToString(comparator)
        op_str == CASE comparator.op = "Exact" -> <<"=">>
                    [] comparator.op = "Greater" -> <<">">>
                    [] comparator.op = "GreaterEq" -> <<">", "=">>
                    [] comparator.op = "Less" -> <<"<">>
                    [] comparator.op = "LessEq" -> <<"<", "=">>
                    [] comparator.op = "Tilde" -> <<"~">>
                    [] comparator.op = "Caret" -> <<"^">>
                    [] comparator.op = "Wildcard" -> <<"*">>
        version_str == TrimStartMatches(comparator_str, op_str)
    IN  ParseVersion(normalize_version(version_str))

MissingVersion == Err("MissingVersion")

\* Result::or(Err(VersionError::from_missing_version()))
OrMissingVersion(result) == IF result.tag = "Err" THEN MissingVersion ELSE result

\* Result::ok
ResultOk(result) == IF result.tag = "Ok" THEN Some(result.value) ELSE None

\* A plausible slip: the comparator is preferred to the installed version.
package_specific_version_comparator_first(req, installed) ==
    LET comparator == select_latest_equal_comparator(req)
    IN  IF comparator # None
        THEN OrMissingVersion(comparator_to_version(comparator.value))
        ELSE IF installed # None /\ matches(req, installed.value)
        THEN Ok(installed.value)
        ELSE MissingVersion

\* The else branch (galaxy.rs:171-176) for the comparator selected:
\* .ok_or(missing version)?, then comparator_to_version(..).or(Err(missing
\* version))?.
version_of_selected(comparator) ==
    IF comparator = None THEN MissingVersion
    ELSE OrMissingVersion(comparator_to_version(comparator.value))

package_specific_version_from_requirement(req, installed) ==
    IF installed # None
    THEN IF matches(req, installed.value) THEN Ok(installed.value) ELSE MissingVersion
    ELSE version_of_selected(select_latest_equal_comparator(req))

\* The version parts the enumerated comparators carry: 1.3.2 of the test,
\* and 3, 3.0, 3.0.0, 3.0.0-a-1, which share major 3 and differ in the
\* components given and in the pre-release.
PartialVersions ==
    { <<1, Some(3), Some(2), <<>>>>,
      <<3, None, None, <<>>>>,
      <<3, Some(0), None, <<>>>>,
      <<3, Some(0), Some(0), <<>>>>,
      <<3, Some(0), Some(0), <<"a", "-", "1">>>> }

\* A wildcard comparator has no patch ("3.*", "3.0.*").
Comparators ==
    { Comparator(op, p[1], p[2], p[3], p[4]) : op \in Ops, p \in PartialVersions }
        \ { Comparator("Wildcard", p[1], p[2], p[3], p[4]) :
                p \in {q \in PartialVersions : q[3] # None} }

RECURSIVE SeqsUpTo(_, _)
SeqsUpTo(S, n) == IF n = 0 THEN {<<>>}
                  ELSE LET shorter == SeqsUpTo(S, n - 1)
                       IN  shorter \cup {Append(q, x) : q \in shorter, x \in S}

Full(op, major, minor, patch) == Comparator(op, major, Some(minor), Some(patch), <<>>)

\* "=1.3.2", ">=2.3.2", ">3.3.2" of test_select_latest_equal_comparator.
TestComparators ==
    << Full("Exact", 1, 3, 2), Full("GreaterEq", 2, 3, 2), Full("Greater", 3, 3, 2) >>

\* ">=3.0.0,<4.0.0"
RangeRequirement == << Full("GreaterEq", 3, 0, 0), Full("Less", 4, 0, 0) >>

Requirements ==
    SeqsUpTo(Comparators, MaxComparators) \cup {TestComparators, RangeRequirement}

InstalledVersions ==
    { Version(1, 3, 2, <<>>), Version(3, 0, 0, <<>>), Version(3, 0, 0, <<"a", "-", "1">>),
      Version(3, 2, 1, <<>>), Version(4, 0, 0, <<>>) }

ResolveInit == /\ pc = "call"
               /\ version_requirement \in Requirements
               /\ global_version \in {None} \cup {Some(v) : v \in InstalledVersions}
               /\ selected_comparator = None
               /\ resolved = None
               /\ IdleNorm /\ IdleLocate /\ IdleExtract

\* A call select_latest_equal_comparator(&version_requirement.comparators).
SelectLatest ==
    /\ pc = "call"
    /\ selected_comparator' = Some(select_latest_equal_comparator(version_requirement))
    /\ pc' = "selected"
    /\ UNCHANGED <<version_requirement, global_version, resolved,
                   normVars, locateVars, extractVars>>

\* A call package_specific_version_from_requirement(&version_requirement,
\* global_version).
Resolve ==
    /\ pc = "call"
    /\ resolved' = Some(package_specific_version_from_requirement(
                            version_requirement, global_version))
    /\ pc' = "resolved"
    /\ UNCHANGED <<version_requirement, global_version, selected_comparator,
                   normVars, locateVars, extractVars>>

ResolveNext == SelectLatest \/ Resolve

SpecResolve == ResolveInit /\ [][ResolveNext]_vars

\* The operators the specification calls eligible (anchor) operators.
AnchorOps == {"Exact", "GreaterOrEqual", "LessOrEqual", "Tilde", "Caret"}
SpecOp(op) == CASE op = "GreaterEq" -> "GreaterOrEqual"
                [] op = "LessEq" -> "LessOrEqual"
                [] OTHER -> op
IsAnchor(c) == SpecOp(c.op) \in AnchorOps
HasAnchor(req) == \E i \in 1..Len(req) : IsAnchor(req[i])

\* The version a comparator stands for: its numbers, 0 for a missing minor
\* or patch, and its pre-release.
AnchorVersion(c) ==
    Version(c.major,
            IF c.minor = None THEN 0 ELSE c.minor.value,
            IF c.patch = None THEN 0 ELSE c.patch.value,
            c.pre)

\* The key (major, minor-or-0, patch-or-0, prerelease) of a is below that of b.
KeyLess(a, b) ==
    LET ka == AnchorVersion(a)
        kb == AnchorVersion(b)
    IN  \/ ka.major < kb.major
        \/ ka.major = kb.major /\ ka.minor < kb.minor
        \/ ka.major = kb.major /\ ka.minor = kb.minor /\ ka.patch < kb.patch
        \/ /\ ka.major = kb.major /\ ka.minor = kb.minor /\ ka.patch = kb.patch
           /\ CmpPre(ka.pre, kb.pre) = -1

\* C1: when the installed version matches the requirement, the resolver
\* returns Ok(installed version), whatever comparators the requirement holds.
C1_InstalledMatchWins ==
    (pc = "resolved" /\ global_version # None
        /\ matches(version_requirement, global_version.value))
        => resolved = Some(Ok(global_version.value))

\* C1 witness: a matching installed version was returned for a requirement
\* that has no eligible comparator.
C1_Witness ==
    /\ pc = "resolved"
    /\ global_version = Some(Version(3, 0, 0, <<>>))
    /\ version_requirement # <<>>
    /\ ~HasAnchor(version_requirement)
    /\ matches(version_requirement, global_version.value)
    /\ resolved = Some(Ok(global_version.value))

\* C2: when the installed version does not match the requirement and the
\* requirement has an eligible comparator whose version normalises, the
\* resolver returns that comparator's normalised version, not MissingVersion.
C2_MismatchFallsBackToComparator ==
    (pc = "resolved" /\ global_version # None
        /\ ~matches(version_requirement, global_version.value)
        /\ HasAnchor(version_requirement))
        => LET chosen == select_latest_equal_comparator(version_requirement)
           IN  /\ resolved # Some(MissingVersion)
               /\ resolved = Some(Ok(AnchorVersion(chosen.value)))

\* C3: with no installed version, the resolver returns the operator-stripped
\* normalised version of the selected comparator when the requirement has an
\* eligible comparator (3.0.0 for ">=3.0.0,<4.0.0"), and MissingVersion exactly
\* when it has none or that comparator's version does not normalise.
C3_NoInstalledUsesComparator ==
    (pc = "resolved" /\ global_version = None)
        => LET chosen == select_latest_equal_comparator(version_requirement)
           IN  /\ HasAnchor(version_requirement)
                    => /\ chosen # None
                       /\ IsAnchor(chosen.value)
                       /\ resolved = Some(Ok(AnchorVersion(chosen.value)))
               /\ resolved = Some(MissingVersion)
                    <=> \/ ~HasAnchor(version_requirement)
                        \/ comparator_to_version(chosen.value).tag = "Err"
               /\ resolved.value.tag \in {"Ok", "Err"}
               /\ version_requirement = RangeRequirement
                    => resolved = Some(Ok(Version(3, 0, 0, <<>>)))

\* C3 witness: ">=3.0.0,<4.0.0" with no installed version resolved to 3.0.0.
C3_Witness ==
    /\ pc = "resolved"
    /\ global_version = None
    /\ version_requirement = RangeRequirement
    /\ resolved = Some(Ok(Version(3, 0, 0, <<>>)))

\* C4: select_latest_equal_comparator returns None when no comparator has an
\* eligible operator; otherwise a comparator of the input with an eligible
\* operator whose key is not below the key of any eligible comparator.
\* Greater, Less and Wildcard comparators are never returned and removing
\* them does not change the result; the test's input gives ">=2.3.2".
C4_SelectLatestEligible ==
    pc = "selected" =>
        LET result == selected_comparator.value
            eligible == SelectSeq(version_requirement, IsAnchor)
        IN  /\ ~HasAnchor(version_requirement) => result = None
            /\ HasAnchor(version_requirement)
                 => /\ result # None
                    /\ IsAnchor(result.value)
                    /\ \E i \in 1..Len(version_requirement) :
                          version_requirement[i] = result.value
                    /\ \A j \in 1..Len(eligible) : ~KeyLess(result.value, eligible[j])
            /\ result = select_latest_equal_comparator(eligible)
            /\ version_requirement = TestComparators
                 => result = Some(Full("GreaterEq", 2, 3, 2))

\* C4 witness: the test's input, with the larger ">3.3.2" passed over.
C4_Witness ==
    /\ pc = "selected"
    /\ version_requirement = TestComparators
    /\ selected_comparator = Some(Some(Full("GreaterEq", 2, 3, 2)))

---------------------------------------------------------------------------
(* Declaration files: the file system, lib.rs:186-265 *)

\* Bound: the depth of the start directory below "/" in the locator's runs.
MaxDepth == 3

\* Bound: the depth of the start directory in the extension's runs.
MaxIdentifyDepth == 1

\* DependencyFileType::iter(): the variants in declaration order.
DependencyFileTypes == <<"GalaxyManifest", "GalaxyYml">>

file_name(type) == IF type = "GalaxyManifest" THEN "MANIFEST.json" ELSE "galaxy.yml"

FileNames == {file_name(DependencyFileTypes[i]) : i \in 1..Len(DependencyFileTypes)}

\* An absolute directory is the sequence of its components below "/"; the
\* root is the empty sequence. The k-th component is named k.
Root == <<>>
DirectoryAtDepth(d) == [k \in 1..d |-> k]
\* PathBuf::pop: the last component is dropped; the root has none to drop.
Pop(path) == IF path = Root THEN path ELSE SubSeq(path, 1, Len(path) - 1)
\* PathBuf::join with a file name.
Join(path, name) == Append(path, name)
Ancestors(dir) == {SubSeq(dir, 1, k) : k \in 0..Len(dir)}

\* What a directory holds under a name: nothing, a directory, or a regular
\* file with its content.
Absent == [kind |-> "absent"]
Directory == [kind |-> "dir"]
RegularFile(content) == [kind |-> "file", content |-> content]

\* struct DependencyFile, for the file of a type in directory dir.
DependencyFile(type, dir) == [type |-> type, path |-> Join(dir, file_name(type))]

\* Path::is_file
is_file(path) == fs[Pop(path)][path[Len(path)]].kind = "file"

\* The file systems whose start directory has depth at most maxDepth and
\* whose declaration files hold one of contents.
FileSystems(maxDepth, contents) ==
    LET entries == {Absent, Directory} \cup {RegularFile(c) : c \in contents}
    IN  UNION { [Ancestors(DirectoryAtDepth(d)) -> [FileNames -> entries]] :
                    d \in 0..maxDepth }

\* The start directory: the deepest directory of the modelled chain.
StartDirectory == CHOOSE d \in DOMAIN fs : \A e \in DOMAIN fs : Len(e) <= Len(d)

\* The inner for loop of identify_dependency_files (lib.rs:241-251): the
\* declaration files that are regular files in dir, in the order of the types.
FilesIn(dir) ==
    LET present(type) == is_file(Join(dir, file_name(type)))
        types == SelectSeq(DependencyFileTypes, present)
    IN  [i \in 1..Len(types) |-> DependencyFile(types[i], dir)]

\* A plausible slip: the walk goes on after a match and collects every level.
FilesInAndAbove(dir) ==
    LET RECURSIVE up(_)
        up(d) == IF d = Root THEN FilesIn(d) ELSE FilesIn(d) \o up(Pop(d))
    IN  up(dir)

\* A plausible slip: the step to the parent does not leave the directory.
StayInDirectory(dir) == dir

\* working_directory.pop() of the loop (lib.rs:262).
ParentDirectory(dir) == Pop(dir)

\* dependency_files of one iteration (lib.rs:241-251).
LevelMatches(dir) == FilesIn(dir)

\* One iteration that finds a declaration file: the function returns the
\* matches of this level.
ReturnMatches ==
    /\ pc = "loop"
    /\ LevelMatches(working_directory) # <<>>
    /\ checked' = Append(checked, working_directory)
    /\ dependency_files' = Some(LevelMatches(working_directory))
    /\ pc' = "located"
    /\ UNCHANGED <<fs, working_directory, normVars, resolveVars, extractVars>>

\* One iteration that finds nothing in "/": the loop breaks and the function
\* returns Vec::new().
BreakAtRoot ==
    /\ pc = "loop"
    /\ LevelMatches(working_directory) = <<>>
    /\ working_directory = Root
    /\ checked' = Append(checked, working_directory)
    /\ dependency_files' = Some(<<>>)
    /\ pc' = "located"
    /\ UNCHANGED <<fs, working_directory, normVars, resolveVars, extractVars>>

\* One iteration that finds nothing below "/": the loop goes on in the parent.
MoveUp ==
    /\ pc = "loop"
    /\ LevelMatches(working_directory) = <<>>
    /\ working_directory # Root
    /\ checked' = Append(checked, working_directory)
    /\ working_directory' = ParentDirectory(working_directory)
    /\ UNCHANGED <<pc, fs, dependency_files, normVars, resolveVars, extractVars>>

\* The content of a file that declares nothing.
EmptyMeta == [tag |-> "value", collection_info_dependencies |-> <<>>,
              dependencies |-> <<>>]

\* identify_dependency_files(&start) is called; the start directory is
\* absolute (the assertion of lib.rs:234 holds).
LocateInit == /\ pc = "loop"
              /\ fs \in FileSystems(MaxDepth, {EmptyMeta})
              /\ working_directory = StartDirectory
              /\ checked = <<>>
              /\ dependency_files = None
              /\ IdleNorm /\ IdleResolve /\ IdleExtract

LocateNext == ReturnMatches \/ BreakAtRoot \/ MoveUp

SpecLocate == LocateInit /\ [][LocateNext]_vars

\* The loop is sequential code: an iteration that can run does run.
SpecLocateFair == SpecLocate /\ WF_vars(LocateNext)

\* The directories on the way from the start directory to "/" that hold a
\* recognised declaration file as a regular file.
Holders == {d \in Ancestors(StartDirectory) :
                \E n \in FileNames : fs[d][n].kind = "file"}

NearestHolder == CHOOSE d \in Holders : \A e \in Holders : Len(e) <= Len(d)

\* C7: identify_dependency_files returns exactly the recognised files that
\* are direct children of the nearest directory, from the start directory up
\* to and including "/", that holds one; nothing from a directory above it;
\* and the empty vector exactly when no directory on the way holds one.
C7_NearestLevelOnly ==
    pc = "located" =>
        LET found == dependency_files.value
            paths == {found[i].path : i \in 1..Len(found)}
        IN  /\ found = <<>> <=> Holders = {}
            /\ Holders # {} =>
                 /\ paths = {Join(NearestHolder, n) :
                               n \in {m \in FileNames : fs[NearestHolder][m].kind = "file"}}
                 /\ Cardinality(paths) = Len(found)
                 /\ \A i \in 1..Len(found) :
                       /\ found[i].path = Join(NearestHolder, file_name(found[i].type))
                       /\ Pop(found[i].path) = NearestHolder

\* C7 witness: both files were found one level above the start directory
\* while a directory further up holds a declaration file too.
C7_Witness ==
    /\ pc = "located"
    /\ Len(StartDirectory) = 2
    /\ Len(dependency_files.value) = 2
    /\ working_directory = Pop(StartDirectory)
    /\ fs[Root]["galaxy.yml"].kind = "file"
    /\ fs[StartDirectory]["galaxy.yml"].kind = "dir"

\* The sequence holds no directory twice and each one is the parent of the
\* one before it.
StrictlyAscending(dirs) ==
    /\ \A i, j \in 1..Len(dirs) : i # j => dirs[i] # dirs[j]
    /\ \A i \in 1..(Len(dirs) - 1) :
          Len(dirs[i]) > 0 /\ dirs[i + 1] = SubSeq(dirs[i], 1, Len(dirs[i]) - 1)

\* C10: the upward walk terminates. Every iteration returns, or moves to the
\* strict parent directory; no directory is checked twice; at most depth + 1
\* directories are checked; and the function does return.
C10_WalkTerminates ==
    /\ [](/\ Len(checked) <= Len(StartDirectory) + 1
          /\ StrictlyAscending(checked)
          /\ pc = "located" => dependency_files # None)
    /\ [][\/ pc' = "located"
          \/ /\ working_directory # Root
             /\ working_directory' = SubSeq(working_directory, 1,
                                            Len(working_directory) - 1)]_vars
    /\ <>(pc = "located")

\* C10 witness: a walk from depth 2 checked three directories, the root
\* last, and returned the empty vector.
C10_Witness ==
    /\ pc = "located"
    /\ Len(StartDirectory) = 2
    /\ checked = <<StartDirectory, Pop(StartDirectory), Root>>
    /\ dependency_files = Some(<<>>)

---------------------------------------------------------------------------
(* Extraction of the declared dependencies, galaxy.rs:181-251 *)

\* Strings of the examples.
Str_3_2_1 == <<"3", ".", "2", ".", "1">>
Str_3_0_0 == <<"3", ".", "0", ".", "0">>
Str_4_0_0 == <<"4", ".", "0", ".", "0">>
Str_3_2 == <<"3", ".", "2">>

PackageNames == {"ansible.posix", "community.general"}

\* serde_json's Map iterates in the order of the keys.
SortedNames(names) ==
    IF names = {} THEN <<>>
    ELSE IF "ansible.posix" \in names
         THEN <<"ansible.posix">> \o
              (IF "community.general" \in names THEN <<"community.general">> ELSE <<>>)
         ELSE <<"community.general">>

\* A value of the dependencies object: not a string, a string that
\* VersionReq::parse rejects, or a string it parses into comparators.
NotString == [tag |-> "not_string"]
BadRequirement == [tag |-> "bad_requirement"]
Requirement(comparators) == [tag |-> "requirement", comparators |-> comparators]

\* What .as_object() gives for a value that is missing or not an object.
NotObject == [tag |-> "not_object"]

\* The content of a declaration file: unreadable, not valid JSON / YAML, or a
\* value with what it holds at collection_info.dependencies and at
\* dependencies (NotObject, or a function from package names to values).
Unreadable == [tag |-> "unreadable"]
Malformed == [tag |-> "malformed"]
Meta(nested, top) == [tag |-> "value", collection_info_dependencies |-> nested,
                      dependencies |-> top]

\* global_dependencies.get(name).and_then(|f| Version::parse(f).ok())
lookup_global_version(globals, name) ==
    IF name \notin DOMAIN globals THEN None
    ELSE ResultOk(ParseVersion(globals[name]))

Dependency(name, result) ==
    [name |-> name,
     version |-> IF result.tag = "Ok" THEN Some(VersionToString(result.value)) ELSE None]

\* A plausible slip: a resolver error is propagated with `?`.
collect_dependencies_strict(raw_dependencies, globals) ==
    LET names == SortedNames(DOMAIN raw_dependencies)
        result(n) == package_specific_version_from_requirement(
                         raw_dependencies[n].comparators, lookup_global_version(globals, n))
        RECURSIVE loop(_, _)
        loop(i, dependencies) ==
            IF i > Len(names) THEN Ok(dependencies)
            ELSE IF raw_dependencies[names[i]] = NotString
                 THEN Err("Failed to parse version requirement as string.")
            ELSE IF raw_dependencies[names[i]] = BadRequirement
                 THEN Err("semver::Error")
            ELSE IF result(names[i]).tag = "Err" THEN Err("MissingVersion")
            ELSE loop(i + 1, dependencies \cup {Dependency(names[i], result(names[i]))})
    IN  loop(1, {})

\* The for loop of both functions (galaxy.rs:196-215, 231-250): the first
\* value that is no string or no requirement ends the call with an error;
\* otherwise one Dependency per entry goes into the HashSet.
collect_dependencies(raw_dependencies, globals) ==
    LET names == SortedNames(DOMAIN raw_dependencies)
        result(n) == package_specific_version_from_requirement(
                         raw_dependencies[n].comparators, lookup_global_version(globals, n))
        RECURSIVE loop(_, _)
        loop(i, dependencies) ==
            IF i > Len(names) THEN Ok(dependencies)
            ELSE IF raw_dependencies[names[i]] = NotString
                 THEN Err("Failed to parse version requirement as string.")
            ELSE IF raw_dependencies[names[i]] = BadRequirement
                 THEN Err("semver::Error")
            ELSE loop(i + 1, dependencies \cup {Dependency(names[i], result(names[i]))})
    IN  loop(1, {})

get_manifest_dependencies(content, globals) ==
    IF content = Unreadable THEN Err("io::Error")
    ELSE IF content = Malformed THEN Err("Failed to parse json")
    ELSE IF content.collection_info_dependencies = NotObject
         THEN Err("Failed to parse dependencies section as object.")
    ELSE collect_dependencies(content.collection_info_dependencies, globals)

get_galaxy_yml_dependencies(content, globals) ==
    IF content = Unreadable THEN Err("io::Error")
    ELSE IF content = Malformed THEN Err("Failed to parse json")
    ELSE IF content.dependencies = NotObject
         THEN Err("Failed to parse dependencies section as object.")
    ELSE collect_dependencies(content.dependencies, globals)

\* ">3.3.2": a requirement with no eligible comparator.
OpenRequirement == << Full("Greater", 3, 3, 2) >>

\* "*": VersionReq::parse gives a requirement with no comparator.
StarRequirement == <<>>

DeclaredValues == {NotString, BadRequirement, Requirement(RangeRequirement),
                   Requirement(OpenRequirement), Requirement(StarRequirement)}

\* The dependencies objects: functions from some package names to values.
Sections == UNION {[names -> DeclaredValues] : names \in SUBSET PackageNames}

FileContents == {Unreadable, Malformed}
                    \cup {Meta(nested, top) : nested \in {NotObject} \cup Sections,
                                              top \in {NotObject} \cup Sections}

\* Installed version strings: two that parse, one ("3.2") that does not.
Inventories == UNION {[names -> {Str_3_2_1, Str_4_0_0, Str_3_2}] :
                          names \in SUBSET PackageNames}

ExtractInit == /\ pc = "call"
               /\ dependency_file \in
                      {Some(DependencyFile(DependencyFileTypes[i], Root)) : i \in 1..2}
               /\ package_meta \in {Some(c) : c \in FileContents}
               /\ global_dependencies \in {Some(Ok(g)) : g \in Inventories}
               /\ outcome = None
               /\ IdleNorm /\ IdleResolve /\ IdleLocate

\* A call get_manifest_dependencies(&file_path, &global_dependencies).
GetManifestDependencies ==
    /\ pc = "call"
    /\ dependency_file.value.type = "GalaxyManifest"
    /\ outcome' = Some(get_manifest_dependencies(package_meta.value,
                                                 global_dependencies.value.value))
    /\ pc' = "extracted"
    /\ UNCHANGED <<dependency_file, package_meta, global_dependencies,
                   normVars, resolveVars, locateVars>>

\* A call get_galaxy_yml_dependencies(&file_path, &global_dependencies).
GetGalaxyYmlDependencies ==
    /\ pc = "call"
    /\ dependency_file.value.type = "GalaxyYml"
    /\ outcome' = Some(get_galaxy_yml_dependencies(package_meta.value,
                                                   global_dependencies.value.value))
    /\ pc' = "extracted"
    /\ UNCHANGED <<dependency_file, package_meta, global_dependencies,
                   normVars, resolveVars, locateVars>>

ExtractNext == GetManifestDependencies \/ GetGalaxyYmlDependencies

SpecExtract == ExtractInit /\ [][ExtractNext]_vars

\* The dependencies object the function of a file type reads.
DeclaredSection(type, content) ==
    IF type = "GalaxyManifest" THEN content.collection_info_dependencies
    ELSE content.dependencies

\* The installed version of a package as the specification reads the
\* inventory: none when the name is missing or its string is no version.
KnownInstalled(globals, name) ==
    IF name \in DOMAIN globals /\ ParseVersion(globals[name]).tag = "Ok"
    THEN Some(ParseVersion(globals[name]).value)
    ELSE None

\* C9: for a readable, well-formed file whose requirement strings all parse,
\* extraction succeeds with one record per declared name; a MissingVersion of
\* the resolver gives the record version None and fails nothing; a name that
\* the inventory lacks, or holds with an unparsable string, is resolved as
\* with no installed version.
C9_ExtractionRecoversLocally ==
    (/\ pc = "extracted"
     /\ package_meta.value.tag = "value"
     /\ DeclaredSection(dependency_file.value.type, package_meta.value) # NotObject
     /\ LET section == DeclaredSection(dependency_file.value.type, package_meta.value)
        IN  \A n \in DOMAIN section : section[n].tag = "requirement")
    => LET section == DeclaredSection(dependency_file.value.type, package_meta.value)
           globals == global_dependencies.value.value
           resolve(n, installed) ==
               package_specific_version_from_requirement(section[n].comparators, installed)
           record(n, r) ==
               [name |-> n,
                version |-> IF r = MissingVersion THEN None
                            ELSE Some(VersionToString(r.value))]
       IN  /\ outcome.value.tag = "Ok"
           /\ {d.name : d \in outcome.value.value} = DOMAIN section
           /\ Cardinality(outcome.value.value) = Cardinality(DOMAIN section)
           /\ \A n \in DOMAIN section :
                 /\ record(n, resolve(n, KnownInstalled(globals, n)))
                        \in outcome.value.value
                 /\ (n \notin DOMAIN globals \/ ParseVersion(globals[n]).tag = "Err")
                        => record(n, resolve(n, None)) \in outcome.value.value

\* C9 witness: galaxy.yml declares ansible.posix ">3.3.2" (no version can be
\* derived) and community.general ">=3.0.0,<4.0.0", the inventory holds "3.2"
\* for community.general; both records are returned.
C9_Witness ==
    /\ pc = "extracted"
    /\ dependency_file.value.type = "GalaxyYml"
    /\ package_meta.value.tag = "value"
    /\ package_meta.value.dependencies =
           [n \in PackageNames |-> IF n = "ansible.posix"
                                   THEN Requirement(OpenRequirement)
                                   ELSE Requirement(RangeRequirement)]
    /\ global_dependencies = Some(Ok([n \in {"community.general"} |-> Str_3_2]))
    /\ outcome = Some(Ok({ [name |-> "ansible.posix", version |-> None],
                           [name |-> "community.general", version |-> Some(Str_3_0_0)] }))

---------------------------------------------------------------------------
(* The extension's entry point, lib.rs:35-68 and 210-228 *)

\* A plausible slip: the first candidate is taken whatever its type.
select_first_dependency_file(files) ==
    IF files = <<>> THEN None ELSE Some(files[1])

select_preferred_dependency_file(files) ==
    LET is_yml(file) == file.type = "GalaxyYml"
    IN  IF \E i \in 1..Len(files) : is_yml(files[i])
        THEN Some(SelectSeq(files, is_yml)[1])
        ELSE IF files = <<>> THEN None ELSE Some(files[1])

\* galaxy::get_registry_host_name
HOST_NAME == "galaxy.ansible.com"

\* The rest of identify_file_defined_dependencies once a file is selected
\* and the inventory has answered (lib.rs:47-67): an error of either ends the
\* call, otherwise one FileDefinedDependencies is returned.
dependency_specs(file, dependencies) ==
    IF dependencies.tag = "Err" THEN dependencies
    ELSE Ok(<< [path |-> file.path, registry_host_name |-> HOST_NAME,
                dependencies |-> dependencies.value] >>)

file_defined_dependencies(file, content, inventory) ==
    IF inventory.tag = "Err" THEN inventory
    ELSE dependency_specs(file,
             IF file.type = "GalaxyManifest"
             THEN get_manifest_dependencies(content, inventory.value)
             ELSE get_galaxy_yml_dependencies(content, inventory.value))

PosixSection == [n \in {"ansible.posix"} |-> Requirement(<<Full("Exact", 1, 3, 2)>>)]
GeneralSection == [n \in {"community.general"} |-> Requirement(RangeRequirement)]

\* The contents of the declaration files in the extension's runs: invalid; a
\* value with both objects; a value with collection_info.dependencies only.
IdentifyContents == {Malformed, Meta(PosixSection, GeneralSection),
                     Meta(PosixSection, NotObject)}

\* What get_global_dependencies returns: the ansible-galaxy command fails or
\* prints no JSON, or it lists the installed collections.
InventoryResults == { Err("ansible-galaxy"), Ok(<<>>),
                      Ok([n \in {"community.general"} |-> Str_3_2_1]) }

IdentifyInit == /\ pc = "loop"
                /\ fs \in FileSystems(MaxIdentifyDepth, IdentifyContents)
                /\ working_directory = StartDirectory
                /\ checked = <<>>
                /\ dependency_files = None
                /\ IdleNorm /\ IdleResolve /\ IdleExtract

\* No declaration file was found: Ok(Vec::new()) is returned before the
\* inventory is asked.
IdentifyNothing ==
    /\ pc = "located"
    /\ select_preferred_dependency_file(dependency_files.value) = None
    /\ outcome' = Some(Ok(<<>>))
    /\ pc' = "identified"
    /\ UNCHANGED <<dependency_file, package_meta, global_dependencies,
                   normVars, resolveVars, locateVars>>

\* A file was selected: the inventory is asked and the file is parsed by the
\* function of its type.
IdentifyFile ==
    /\ pc = "located"
    /\ \E file \in {f.value : f \in {select_preferred_dependency_file(dependency_files.value)}
                                    \ {None}} :
       \E content \in {fs[Pop(file.path)][file.path[Len(file.path)]].content} :
       \E inventory \in InventoryResults :
          /\ dependency_file' = Some(file)
          /\ global_dependencies' = Some(inventory)
          /\ package_meta' = IF inventory.tag = "Err" THEN None ELSE Some(content)
          /\ outcome' = Some(file_defined_dependencies(file, content, inventory))
    /\ pc' = "identified"
    /\ UNCHANGED <<normVars, resolveVars, locateVars>>

IdentifyNext == ReturnMatches \/ BreakAtRoot \/ MoveUp \/ IdentifyNothing \/ IdentifyFile

SpecIdentify == IdentifyInit /\ [][IdentifyNext]_vars

\* C8: the selection takes the first GalaxyYml candidate when there is one,
\* else the first candidate, and nothing only when there is no candidate; so
\* in a directory with both files only galaxy.yml is parsed and a successful
\* run reports exactly the entries of galaxy.yml.
C8_GalaxyYmlPreferred ==
    pc = "identified" =>
        LET candidates == dependency_files.value
            ymls == {i \in 1..Len(candidates) : candidates[i].type = "GalaxyYml"}
            directory == working_directory
        IN  /\ ymls # {} =>
                 dependency_file = Some(candidates[CHOOSE i \in ymls : \A j \in ymls : i <= j])
            /\ (ymls = {} /\ candidates # <<>>) => dependency_file = Some(candidates[1])
            /\ dependency_file = None <=> candidates = <<>>
            /\ candidates = <<>> => outcome = Some(Ok(<<>>))
            /\ (/\ fs[directory]["MANIFEST.json"].kind = "file"
                /\ fs[directory]["galaxy.yml"].kind = "file")
                 => /\ dependency_file.value.path = Join(directory, "galaxy.yml")
                    /\ package_meta \in {None, Some(fs[directory]["galaxy.yml"].content)}
                    /\ outcome.value.tag = "Ok" =>
                          /\ Len(outcome.value.value) = 1
                          /\ outcome.value.value[1].path = Join(directory, "galaxy.yml")
                          /\ {d.name : d \in outcome.value.value[1].dependencies}
                               = DOMAIN fs[directory]["galaxy.yml"].content.dependencies

\* C8 witness: both files are present with different entries and the run
\* reported the entry of galaxy.yml, resolved to the installed 3.2.1.
C8_Witness ==
    /\ pc = "identified"
    /\ Len(dependency_files.value) = 2
    /\ fs[working_directory]["MANIFEST.json"] = RegularFile(Meta(PosixSection, NotObject))
    /\ outcome = Some(Ok(<< [path |-> Join(working_directory, "galaxy.yml"),
                             registry_host_name |-> HOST_NAME,
                             dependencies |-> {[name |-> "community.general",
                                                version |-> Some(Str_3_2_1)]}] >>))

---------------------------------------------------------------------------
(* Resolution of a requirement and of a reordering of it, galaxy.rs:162-179 *)

\* The sequences that hold the elements of s in another (or the same) order.
Reorderings(s) ==
    LET n == Len(s)
        bijections == {p \in [1..n -> 1..n] : \A i, j \in 1..n : i # j => p[i] # p[j]}
    IN  {[i \in 1..n |-> s[p[i]]] : p \in bijections}

\* The resolver is called with no installed version.
ReorderInit == ResolveInit /\ global_version = None

\* A second call package_specific_version_from_requirement(&reordered, None)
\* on a requirement that holds the same comparators in another order; the
\* comparator the first call would select stays recorded.
ResolveReordered ==
    /\ pc = "resolved"
    /\ \E reordered \in Reorderings(version_requirement) :
          /\ version_requirement' = reordered
          /\ resolved' = Some(package_specific_version_from_requirement(
                                  reordered, global_version))
    /\ selected_comparator' = Some(select_latest_equal_comparator(version_requirement))
    /\ pc' = "reresolved"
    /\ UNCHANGED <<global_version, normVars, locateVars, extractVars>>

ReorderNext == Resolve \/ ResolveReordered

SpecReorder == ReorderInit /\ [][ReorderNext]_vars

\* C11: with no installed version the resolver's result (the version, or
\* MissingVersion) does not depend on the order of the comparators: the call
\* on any reordering of the requirement returns what the first call returned,
\* also when eligible comparators tie on the key and another one is selected.
C11_OrderIndependent ==
    [][(pc = "resolved" /\ pc' = "reresolved") => resolved' = resolved]_vars

\* C11 witness: "^3, =3.0.0" and its reverse tie on the key, the two calls
\* selected different comparators, and both returned 3.0.0.
C11_Witness ==
    /\ pc = "reresolved"
    /\ global_version = None
    /\ version_requirement = << Comparator("Caret", 3, None, None, <<>>),
                                Full("Exact", 3, 0, 0) >>
    /\ selected_comparator = Some(Some(Comparator("Caret", 3, None, None, <<>>)))
    /\ select_latest_equal_comparator(version_requirement)
           = Some(Full("Exact", 3, 0, 0))
    /\ resolved = Some(Ok(Version(3, 0, 0, <<>>)))

=============================================================================
